---- MODULE Spec2Model ----
(***************************************************************************)
(* pghstore.dump (src/pghstore.py): one call of dump(obj, file, key_map,   *)
(* value_map, encoding), followed statement by statement.  Text is a       *)
(* sequence of one-character strings; a Python object is a record          *)
(* [t, s] with its type tag t and, in s, the characters of the object      *)
(* (for a str or unicode) or of str(object) (for anything else).           *)
(***************************************************************************)
EXTENDS Integers, Sequences, FiniteSets, TLC

\* Largest number of pairs a source yields.
MaxPairs == 2

VARIABLES
    obj,        \* the source: its iteritems / items / __iter__ attributes
    file,       \* the sink: whether it has a callable write
    key_map,    \* "None", "NotCallable" or the name of a callable
    value_map,  \* "None", "NotCallable" or the name of a callable
    pc,         \* position in dump
    items,      \* the iterator's underlying sequence of pairs
    pos,        \* number of pairs taken from the iterator
    key,        \* loop variable key
    value,      \* loop variable value
    first,      \* local first
    sink,       \* everything write() received, concatenated
    err,        \* the exception leaving dump, if any
    calls       \* invocations of the caller's key_map / value_map, in order

vars == <<obj, file, key_map, value_map, pc, items, pos, key, value, first,
          sink, err, calls>>

----------------------------------------------------------------------------
\* Python objects

Str(s)     == [t |-> "str", s |-> s]
Unicode(s) == [t |-> "unicode", s |-> s]
Int1       == [t |-> "int", s |-> <<"1">>]
None       == [t |-> "NoneType", s |-> <<"N", "o", "n", "e">>]
Unbound    == [t |-> "unbound", s |-> <<>>]

\* isinstance(x, basestring) and isinstance(x, str)
IsBasestring(x) == x.t \in {"str", "unicode"}
IsStr(x)        == x.t = "str"

\* u.encode('utf-8'), character by character: a non-ASCII character becomes
\* two bytes.
EncodeChar(c) == IF c = "u00e9" THEN <<"\\xc3", "\\xa9">> ELSE <<c>>

RECURSIVE EncodeText(_)
EncodeText(s) ==
    IF s = <<>> THEN <<>> ELSE EncodeChar(Head(s)) \o EncodeText(Tail(s))

encode(x) == Str(EncodeText(x.s))

\* The callables a caller may pass as key_map / value_map.
Callables == {"str", "quote", "raiser"}

\* f(x) for a callable f that returns: str(x), or '"%s"' % x.
Apply(f, x) ==
    IF f = "quote" THEN Str(<<"\"">> \o x.s \o <<"\"">>) ELSE Str(x.s)

\* callable(f)
IsCallable(f) == f \in Callables

----------------------------------------------------------------------------
\* Exceptions

NoError == [type |-> "none", msg |-> "", key |-> Unbound, value |-> Unbound]

\* No exception has left dump.
Running == err = NoError

TypeError(m, k, v) == [type |-> "TypeError", msg |-> m, key |-> k, value |-> v]

\* What a call f(x) raises by itself: a non-callable f, or the callable
\* "raiser", whose own exception is HookError.
CallError(f, x) ==
    IF ~IsCallable(f)
    THEN [type |-> "TypeError", msg |-> "object is not callable",
          key |-> Unbound, value |-> Unbound]
    ELSE [type |-> "HookError", msg |-> "raised by the callable",
          key |-> Unbound, value |-> x]

CallRaises(f) == ~IsCallable(f) \/ f = "raiser"

----------------------------------------------------------------------------
\* Inputs

Keys   == {Str(<<"a">>), Str(<<"a", "\"", "b">>), Unicode(<<"u00e9">>), Int1}
Values == {Str(<<"c", "\\", "d">>), Unicode(<<"u00e9">>), Int1, None}
Pairs  == Keys \X Values

PairSeqs == UNION {[1..n -> Pairs] : n \in 0..MaxPairs}

Absent  == [callable |-> FALSE, pairs |-> <<>>]
Meth(p) == [callable |-> TRUE, pairs |-> p]

\* What a second, lower-preference method of the same object yields.
Other == <<<<Str(<<"a">>), Str(<<"1">>)>>, <<Str(<<"a">>), Str(<<"1">>)>>,
           <<Str(<<"a">>), Str(<<"1">>)>>>>
Lower == {Absent, Meth(Other)}

Objs ==
    {[iteritems |-> Absent, items |-> Absent, iter |-> Absent]}
    \cup {[iteritems |-> Absent, items |-> Absent, iter |-> Meth(p)] :
            p \in PairSeqs}
    \cup {[iteritems |-> Absent, items |-> Meth(p), iter |-> c] :
            p \in PairSeqs, c \in Lower}
    \cup {[iteritems |-> Meth(p), items |-> c, iter |-> c] :
            p \in PairSeqs, c \in Lower}

Maps == {"None", "NotCallable"} \cup Callables

----------------------------------------------------------------------------
\* escape_re = re.compile(r'[\\"]'); escape_re.sub(r'\\\1', s).
\* The pattern has no group: the template is expanded at the first match and
\* the reference \1 then raises re.error; with no match s is returned as is.

IsSpecial(c) == c \in {"\"", "\\"}

HasMatch(s) == \E i \in 1..Len(s) : IsSpecial(s[i])

escape_sub(s) ==
    IF HasMatch(s) THEN [ok |-> FALSE, s |-> <<>>] ELSE [ok |-> TRUE, s |-> s]

ReError == [type |-> "re.error", msg |-> "invalid group reference",
            key |-> Unbound, value |-> Unbound]

----------------------------------------------------------------------------
\* select_items with items preferred to iteritems.
select_items_items_first(o) ==
    IF o.items.callable THEN [ok |-> TRUE, pairs |-> o.items.pairs]
    ELSE IF o.iteritems.callable THEN [ok |-> TRUE, pairs |-> o.iteritems.pairs]
    ELSE IF o.iter.callable THEN [ok |-> TRUE, pairs |-> o.iter.pairs]
    ELSE [ok |-> FALSE, pairs |-> <<>>]

\* The source's pair iterator, by preference.

select_items(o) ==
    IF o.iteritems.callable THEN [ok |-> TRUE, pairs |-> o.iteritems.pairs]
    ELSE IF o.items.callable THEN [ok |-> TRUE, pairs |-> o.items.pairs]
    ELSE IF o.iter.callable THEN [ok |-> TRUE, pairs |-> o.iter.pairs]
    ELSE [ok |-> FALSE, pairs |-> <<>>]

Init ==
    /\ obj \in Objs
    /\ file \in [writable : BOOLEAN]
    /\ key_map \in Maps
    /\ value_map \in Maps
    /\ pc = "select"
    /\ items = <<>>
    /\ pos = 0
    /\ key = Unbound
    /\ value = Unbound
    /\ first = TRUE
    /\ sink = <<>>
    /\ err = NoError
    /\ calls = <<>>

\* An exception leaves dump: pc stays at the statement that raised it.
Raise(e) == pc' = pc /\ err' = e

\* if callable(getattr(obj, 'iteritems', None)): ... else: raise TypeError
SelectItems ==
    /\ Running
    /\ pc = "select"
    /\ LET r == select_items(obj) IN
         IF r.ok
         THEN /\ items' = r.pairs
              /\ pc' = "check_maps"
              /\ err' = err
         ELSE /\ Raise(TypeError("expected a mapping object", Unbound, Unbound))
              /\ items' = items
    /\ UNCHANGED <<obj, file, key_map, value_map, pos, key, value, first,
                   sink, calls>>

\* The if / elif / elif chain over key_map and value_map: the value_map
\* branch is reached only when key_map is given and callable.
check_maps(km, vm) ==
    IF km = "None" THEN "ok"
    ELSE IF ~IsCallable(km) THEN "key_map must be callable"
    ELSE IF ~(vm = "None" \/ IsCallable(vm)) THEN "value_map must be callable"
    ELSE "ok"

CheckMaps ==
    /\ Running
    /\ pc = "check_maps"
    /\ LET r == check_maps(key_map, value_map) IN
         IF r = "ok"
         THEN pc' = "check_file" /\ err' = err
         ELSE Raise(TypeError(r, Unbound, Unbound))
    /\ UNCHANGED <<obj, file, key_map, value_map, items, pos, key, value,
                   first, sink, calls>>

\* write = getattr(file, 'write', None); if not callable(write): raise
CheckFile ==
    /\ Running
    /\ pc = "check_file"
    /\ IF file.writable
       THEN pc' = "loop" /\ err' = err
       ELSE Raise(TypeError("file must be a writable file object",
                            Unbound, Unbound))
    /\ UNCHANGED <<obj, file, key_map, value_map, items, pos, key, value,
                   first, sink, calls>>

\* for key, value in items:
NextPair ==
    /\ Running
    /\ pc = "loop"
    /\ IF pos < Len(items)
       THEN /\ pos' = pos + 1
            /\ key' = items[pos + 1][1]
            /\ value' = items[pos + 1][2]
            /\ pc' = "resolve_key"
       ELSE /\ pc' = "done"
            /\ UNCHANGED <<pos, key, value>>
    /\ UNCHANGED <<obj, file, key_map, value_map, items, first, sink, err,
                   calls>>

Call(hook, f, x) == [hook |-> hook, pair |-> pos, f |-> f, arg |-> x]

\* resolve_key with a default key_map that returns its argument.
resolve_key_no_default_raise(k, km) ==
    IF ~IsBasestring(k)
    THEN IF km = "None" THEN "keep"
         ELSE IF CallRaises(km) THEN "call_raise" ELSE "call"
    ELSE IF ~IsStr(k) THEN "encode" ELSE "keep"

\* resolve_key with key_map, when given, applied to text keys too.
resolve_key_maps_text(k, km) ==
    IF ~IsBasestring(k) \/ IsCallable(km)
    THEN IF km = "None" THEN "raise"
         ELSE IF CallRaises(km) THEN "call_raise" ELSE "call"
    ELSE IF ~IsStr(k) THEN "encode" ELSE "keep"

\* The outcome of resolving the key: "raise", "call" (key_map invoked and
\* returned), "call_raise" (key_map invoked and raised), "encode", "keep".
resolve_key(k, km) ==
    IF ~IsBasestring(k)
    THEN IF km = "None" THEN "raise"
         ELSE IF CallRaises(km) THEN "call_raise" ELSE "call"
    ELSE IF ~IsStr(k) THEN "encode" ELSE "keep"

ResolveKey ==
    /\ Running
    /\ pc = "resolve_key"
    /\ LET r == resolve_key(key, key_map) IN
         /\ calls' = IF r \in {"call", "call_raise"} /\ IsCallable(key_map)
                     THEN Append(calls, Call("key_map", key_map, key))
                     ELSE calls
         /\ key' = CASE r = "call" -> Apply(key_map, key)
                     [] r = "encode" -> encode(key)
                     [] OTHER -> key
         /\ CASE r = "raise" ->
                   Raise(TypeError("key is not a string", key, Unbound))
              [] r = "call_raise" -> Raise(CallError(key_map, key))
              [] OTHER -> pc' = "resolve_value" /\ err' = err
    /\ UNCHANGED <<obj, file, key_map, value_map, items, pos, value, first,
                   sink>>

\* resolve_value with None let through without value_map.
resolve_value_none_passes(v, vm) ==
    IF v = None /\ vm = "None" THEN "keep"
    ELSE IF ~IsBasestring(v)
    THEN IF vm = "None" THEN "raise"
         ELSE IF CallRaises(vm) THEN "call_raise" ELSE "call"
    ELSE IF ~IsStr(v) THEN "encode" ELSE "keep"

\* The outcome of resolving the value, as for the key.
resolve_value(v, vm) ==
    IF ~IsBasestring(v)
    THEN IF vm = "None" THEN "raise"
         ELSE IF CallRaises(vm) THEN "call_raise" ELSE "call"
    ELSE IF ~IsStr(v) THEN "encode" ELSE "keep"

ResolveValue ==
    /\ Running
    /\ pc = "resolve_value"
    /\ LET r == resolve_value(value, value_map) IN
         /\ calls' = IF r \in {"call", "call_raise"} /\ IsCallable(value_map)
                     THEN Append(calls, Call("value_map", value_map, value))
                     ELSE calls
         /\ value' = CASE r = "call" -> Apply(value_map, value)
                       [] r = "encode" -> encode(value)
                       [] OTHER -> value
         /\ CASE r = "raise" ->
                   Raise(TypeError("value is not a string", key, value))
              [] r = "call_raise" -> Raise(CallError(value_map, value))
              [] OTHER -> pc' = "write" /\ err' = err
    /\ UNCHANGED <<obj, file, key_map, value_map, items, pos, key, first,
                   sink>>

\* write_pair without the local first: no separator is written.
write_pair_no_comma(k, v, f) ==
    LET ek == escape_sub(k.s)
        ev == escape_sub(v.s)
    IN  IF ~ek.ok THEN [ok |-> FALSE, out |-> <<"\"">>]
        ELSE IF ~ev.ok
        THEN [ok |-> FALSE, out |-> <<"\"">> \o ek.s \o <<"\"", "=", ">", "\"">>]
        ELSE [ok |-> TRUE,
              out |-> <<"\"">> \o ek.s \o <<"\"", "=", ">", "\"">> \o ev.s
                      \o <<"\"">>]

\* write_pair with the comma written after each pair but the last known one.
write_pair_comma_after(k, v, f) ==
    LET ek == escape_sub(k.s)
        ev == escape_sub(v.s)
    IN  IF ~ek.ok THEN [ok |-> FALSE, out |-> <<"\"">>]
        ELSE IF ~ev.ok
        THEN [ok |-> FALSE, out |-> <<"\"">> \o ek.s \o <<"\"", "=", ">", "\"">>]
        ELSE [ok |-> TRUE,
              out |-> <<"\"">> \o ek.s \o <<"\"", "=", ">", "\"">> \o ev.s
                      \o <<"\"">> \o (IF pos < Len(items) THEN <<",">> ELSE <<>>)]

\* The five writes of one pair; a failing escape_re.sub stops them.
write_pair(k, v, f) ==
    LET open == IF f THEN <<"\"">> ELSE <<",", "\"">>
        ek   == escape_sub(k.s)
        ev   == escape_sub(v.s)
    IN  IF ~ek.ok THEN [ok |-> FALSE, out |-> open]
        ELSE IF ~ev.ok
        THEN [ok |-> FALSE, out |-> open \o ek.s \o <<"\"", "=", ">", "\"">>]
        ELSE [ok |-> TRUE,
              out |-> open \o ek.s \o <<"\"", "=", ">", "\"">> \o ev.s
                      \o <<"\"">>]

WritePair ==
    /\ Running
    /\ pc = "write"
    /\ LET r == write_pair(key, value, first) IN
         /\ sink' = sink \o r.out
         /\ IF r.ok THEN pc' = "loop" /\ err' = err ELSE Raise(ReError)
    /\ first' = FALSE
    /\ UNCHANGED <<obj, file, key_map, value_map, items, pos, key, value,
                   calls>>

Next ==
    \/ SelectItems
    \/ CheckMaps
    \/ CheckFile
    \/ NextPair
    \/ ResolveKey
    \/ ResolveValue
    \/ WritePair

Spec == Init /\ [][Next]_vars

----------------------------------------------------------------------------
\* The hstore text the pairs of a source stand for.

\* Every " and \ prefixed by one backslash, every other character unchanged.
RECURSIVE Escaped(_)
Escaped(s) ==
    IF s = <<>> THEN <<>>
    ELSE (IF IsSpecial(Head(s)) THEN <<"\\", Head(s)>> ELSE <<Head(s)>>)
         \o Escaped(Tail(s))

\* The text of a key or value: itself when it is text, else the hook's result.
TextOf(x, f) ==
    IF IsBasestring(x) THEN (IF IsStr(x) THEN x ELSE encode(x)) ELSE Apply(f, x)

Arrow == <<"\"", "=", ">", "\"">>

Rendered(p) ==
    <<"\"">> \o Escaped(TextOf(p[1], key_map).s) \o Arrow
             \o Escaped(TextOf(p[2], value_map).s) \o <<"\"">>

RECURSIVE Joined(_)
Joined(ps) ==
    IF ps = <<>> THEN <<>>
    ELSE IF Len(ps) = 1 THEN Rendered(ps[1])
    ELSE Rendered(Head(ps)) \o <<",">> \o Joined(Tail(ps))

\* The pairs before the current one, and up to it.
Before == SubSeq(items, 1, pos - 1)
UpTo   == SubSeq(items, 1, pos)

Failed == err # NoError

EndsWith(s, t) ==
    Len(s) >= Len(t) /\ SubSeq(s, Len(s) - Len(t) + 1, Len(s)) = t

----------------------------------------------------------------------------
\* The current pair as the source gave it.
CurKey   == items[pos][1]
CurValue == items[pos][2]

\* The write step of the current pair has run (to its end or to an exception).
Wrote == pos > 0 /\ (pc \in {"loop", "done"} \/ (pc = "write" /\ Failed))

\* The current pair has been written completely.
WroteAll == pos > 0 /\ pc \in {"loop", "done"}

\* The value of the current pair has been resolved, or resolving it raised.
ValueStepRan ==
    pos > 0 /\ (pc \in {"write", "loop", "done"}
                \/ (pc = "resolve_value" /\ Failed))

\* The key of the current pair has been resolved, or resolving it raised.
KeyStepRan ==
    pos > 0 /\ (pc \in {"resolve_value", "write", "loop", "done"}
                \/ (pc = "resolve_key" /\ Failed))

ValueMapCalledOnCur ==
    \E i \in DOMAIN calls : calls[i].hook = "value_map" /\ calls[i].pair = pos

\* C1: once the write step of a pair has run, the sink holds the pairs up to
\* it with every double quote and backslash of their keys and values prefixed
\* by one backslash, whatever characters the texts contain.
C1_EscapesQuoteAndBackslash ==
    Wrote => (~Failed /\ sink = Joined(UpTo))

C3_OnePairPerSourcePair ==
    pc = "done" =>
        /\ ~Failed
        /\ pos = Len(items)
        /\ sink = Joined(items)
        /\ (items = <<>> => sink = <<>>)

C3_Witness ==
    /\ pc = "done"
    /\ Len(items) = 2
    /\ items[1][1] = items[2][1]
    /\ items[1][2] # items[2][2]
    /\ Len(sink) > 0

\* C4: a value_map that is given and not callable makes dump raise TypeError
\* before anything is written, whatever the source and key_map are.
C4_NonCallableValueMapRejected ==
    value_map = "NotCallable" =>
        /\ pc \in {"select", "check_maps"}
        /\ err.type \in {"none", "TypeError"}
        /\ sink = <<>>

\* C5: a non-text value makes dump raise the TypeError naming the value and
\* its key when there is no value_map; with a value_map that returns, the
\* pair does not fail and the value written is the escaped text returned.
C5_NonTextValue ==
    (ValueStepRan /\ ~IsBasestring(CurValue)) =>
        /\ (value_map = "None" =>
               /\ pc = "resolve_value"
               /\ err = TypeError("value is not a string", key, CurValue))
        /\ ((value_map \in {"str", "quote"} /\ ~HasMatch(key.s)) =>
               /\ ~Failed
               /\ (WroteAll => sink = Joined(UpTo)))

NoShape ==
    ~obj.iteritems.callable /\ ~obj.items.callable /\ ~obj.iter.callable

\* C7: the pairs come from iteritems if it is callable, else from items,
\* else from __iter__; a source with none of them makes dump raise TypeError.
C7_SourcePreference ==
    (pc # "select" \/ Failed) =>
        /\ (obj.iteritems.callable => items = obj.iteritems.pairs)
        /\ ((~obj.iteritems.callable /\ obj.items.callable) =>
               items = obj.items.pairs)
        /\ ((~obj.iteritems.callable /\ ~obj.items.callable
             /\ obj.iter.callable) => items = obj.iter.pairs)
        /\ (NoShape =>
               /\ pc = "select"
               /\ err = TypeError("expected a mapping object", Unbound,
                                  Unbound)
               /\ sink = <<>>)
        /\ (~NoShape => pc # "select")
        /\ (pc = "done" => sink = Joined(items))

C7_Witness ==
    /\ pc = "done"
    /\ obj.iteritems.callable
    /\ obj.items.callable
    /\ obj.iter.callable
    /\ obj.iteritems.pairs # obj.items.pairs
    /\ Len(items) = 1
    /\ sink = Rendered(obj.iteritems.pairs[1])

\* C8: key_map is called only on non-text keys and value_map only on
\* non-text values, each at most once per pair, the key's call before the
\* value's, and no byte of a pair is in the sink until both are resolved.
C8_HooksOnlyOnNonText ==
    /\ \A i \in DOMAIN calls :
          /\ ~IsBasestring(calls[i].arg)
          /\ calls[i].pair \in 1..pos
          /\ (calls[i].hook = "key_map" =>
                 calls[i].f = key_map
                 /\ calls[i].arg = items[calls[i].pair][1])
          /\ (calls[i].hook = "value_map" =>
                 calls[i].f = value_map
                 /\ calls[i].arg = items[calls[i].pair][2])
    /\ \A i, j \in DOMAIN calls :
          i < j => \/ calls[i].pair < calls[j].pair
                   \/ /\ calls[i].pair = calls[j].pair
                      /\ calls[i].hook = "key_map"
                      /\ calls[j].hook = "value_map"
    /\ (pc \in {"resolve_key", "resolve_value"} => sink = Joined(Before))
    /\ (pc = "resolve_value" /\ ~Failed => key = TextOf(CurKey, key_map))
    /\ ((pc = "write" /\ ~Failed) =>
           /\ sink = Joined(Before)
           /\ key = TextOf(CurKey, key_map)
           /\ value = TextOf(CurValue, value_map))

C8_Witness ==
    /\ pc = "done"
    /\ Len(items) = 2
    /\ IsBasestring(items[1][1]) /\ ~IsBasestring(items[1][2])
    /\ ~IsBasestring(items[2][1]) /\ ~IsBasestring(items[2][2])
    /\ Len(calls) = 3
    /\ calls[2].hook = "key_map"
    /\ calls[3].hook = "value_map"

\* C9: when resolving the key or value of the i-th pair raises, the sink
\* holds exactly the comma-joined rendering of the first i-1 pairs, no later
\* pair has been taken, and a hook's own exception is the one that leaves.
C9_FailureLeavesWholePairs ==
    (pc \in {"resolve_key", "resolve_value"} /\ Failed) =>
        /\ sink = Joined(Before)
        /\ \A i \in DOMAIN calls : calls[i].pair <= pos
        /\ ((pc = "resolve_key" /\ key_map = "raiser") =>
               err = [type |-> "HookError", msg |-> "raised by the callable",
                      key |-> Unbound, value |-> CurKey])
        /\ ((pc = "resolve_value" /\ value_map = "raiser") =>
               err = [type |-> "HookError", msg |-> "raised by the callable",
                      key |-> Unbound, value |-> CurValue])

C9_Witness ==
    /\ pos = 2
    /\ pc = "resolve_value"
    /\ err.type = "HookError"
    /\ sink = Rendered(items[1])

\* The message of the first check to fail, taken in the order source shape,
\* key_map, value_map, sink.
FirstFailingCheck ==
    IF NoShape THEN "expected a mapping object"
    ELSE IF key_map = "NotCallable" THEN "key_map must be callable"
    ELSE IF value_map = "NotCallable" THEN "value_map must be callable"
    ELSE IF ~file.writable THEN "file must be a writable file object"
    ELSE "ok"

\* C10: a failure of the checks on the source, key_map or the file is a
\* TypeError raised with no pair taken, no hook called and nothing written,
\* and it is the failure of the first failing check in the order source
\* shape, key_map, value_map, sink.
C10_ChecksInOrder ==
    (pc \in {"select", "check_maps", "check_file"} /\ Failed) =>
        /\ err.type = "TypeError"
        /\ pos = 0
        /\ calls = <<>>
        /\ sink = <<>>
        /\ err.msg = FirstFailingCheck

====
